---------------------------- MODULE Spec2Model ----------------------------
(***************************************************************************)
(* A model of the log ETL pipeline of flows/etl_flow.py and of the         *)
(* parallel parsing layer of dask_jobs/dask_processing.py.                 *)
(*                                                                         *)
(* Text is modelled as sequences of one-character strings, so that the     *)
(* regular expressions of the code are evaluated character by character.   *)
(* The module holds several specifications over one set of variables:      *)
(*   SpecGen     the Message Generalizer applied to bounded messages       *)
(*   SpecParse   the Line Parser applied to bounded lines                  *)
(*   SpecIngest  the per-file workers and the two dispatch strategies      *)
(*   Spec        the task lifecycle and the Extract/Transform/Load run     *)
(***************************************************************************)
EXTENDS Integers, Sequences, FiniteSets, TLC

VARIABLES
    msg_in,      \* SpecGen: the value handed to the generalizer
    msg_out,     \* SpecGen: generalize(msg_in), or NotRun
    msg_out2,    \* SpecGen: generalize(generalize(msg_in)), or NotRun
    line_in,     \* SpecParse: the line handed to the Line Parser
    parsed_dask, \* SpecParse: parse_log_line(line_in), or NotRun
    parsed_etl,  \* SpecParse: _parse_log_line(line_in.strip()), or NotRun
    log_files,   \* SpecIngest: the discovered files, in the order glob returns them
    fault,       \* SpecIngest: per file, after how many lines its read fails (NoFault: never)
    tie_order,   \* SpecIngest, Spec: how the build's sort orders equal timestamps
    ing_pc,      \* SpecIngest: the position of the caller
    unit_res,    \* SpecIngest: per dispatched unit, its returned records, or NotRun
    seq_i,       \* SpecIngest: the index of the file the sequential loop is at
    all_records, \* SpecIngest: the accumulator of the sequential loop
    df_tasks,    \* SpecIngest: what parallel_parse_logs returned, or NotRun
    df_bag,      \* SpecIngest: what process_logs_with_bag returned, or NotRun
    df_seq,      \* SpecIngest: what _sequential_parse returned, or NotRun
    dask_available,     \* Spec: DASK_AVAILABLE, set when the module is imported
    postgres_available, \* Spec: POSTGRES_AVAILABLE, set when the module is imported
    clock,       \* Spec: the number of datetime.now() calls made so far
    pc,          \* Spec: "idle", or inside ETLPipeline.run: "call" before a stage's
                 \*       run(), "exec" inside it
    stage,       \* Spec: the stage the pipeline call is at
    call,        \* Spec: the arguments and start time of the pipeline call
    t_status,    \* Spec: ETLTask.status of the three stage objects
    t_start,     \* Spec: ETLTask.start_time (NoTime: None)
    t_end,       \* Spec: ETLTask.end_time (NoTime: None)
    t_result,    \* Spec: ETLTask.result
    t_error,     \* Spec: ETLTask.error
    results,     \* Spec: ETLPipeline.results
    exec_exc,    \* Spec: what the last execute() raised, or NoExc
    outcome,     \* Spec: what the last ETLPipeline.run call delivered to its caller
    sink_files,  \* Spec: the files written below OUTPUT_DIR, each with the load call that wrote it
    db_rows,     \* Spec: the committed inserts into log_entries, each with its load call
    open_conns,  \* Spec: the database connections opened and not closed
    pg_log,      \* Spec: what the last LoadTask.execute did with the database
    worker_calls \* Spec: the files the last TransformTask.execute had parsed

genVars == <<msg_in, msg_out, msg_out2>>
parseVars == <<line_in, parsed_dask, parsed_etl>>
ingestVars ==
    <<log_files, fault, tie_order, ing_pc, unit_res, seq_i, all_records,
      df_tasks, df_bag, df_seq>>
envVars == <<dask_available, postgres_available>>
taskVars == <<t_status, t_start, t_end, t_result, t_error>>
sinkVars == <<sink_files, db_rows, open_conns, pg_log>>
pipeVars ==
    <<envVars, clock, pc, stage, call, taskVars, results, exec_exc, outcome, sinkVars,
      worker_calls>>

NotRun == [notrun |-> TRUE]

(***************************************************************************)
(* Characters                                                              *)
(***************************************************************************)
UpperSeq ==
    <<"A", "B", "C", "D", "E", "F", "G", "H", "I", "J", "K", "L", "M", "N", "O", "P",
      "Q", "R", "S", "T", "U", "V", "W", "X", "Y", "Z">>

LowerSeq ==
    <<"a", "b", "c", "d", "e", "f", "g", "h", "i", "j", "k", "l", "m", "n", "o", "p",
      "q", "r", "s", "t", "u", "v", "w", "x", "y", "z">>

Digits == {"0", "1", "2", "3", "4", "5", "6", "7", "8", "9"}

HexChars == Digits \cup {"a", "b", "c", "d", "e", "f"}

Letters == {UpperSeq[i] : i \in 1..26} \cup {LowerSeq[i] : i \in 1..26}

\* \w of the re module on the characters of the model
IsWordChar(c) == c \in Letters \cup Digits \cup {"_"}

\* \s of the re module, and the characters str.strip() removes
IsSpaceChar(c) == c \in {" ", "\t", "\n", "\r"}

\* str.lower() on one character
ToLower(c) ==
    IF \E i \in 1..26 : UpperSeq[i] = c
    THEN LowerSeq[CHOOSE i \in 1..26 : UpperSeq[i] = c]
    ELSE c

\* \b before position k of s (1-based; k = Len(s) + 1 is the end of the text)
WordBoundary(s, k) ==
    (k > 1 /\ k - 1 <= Len(s) /\ IsWordChar(s[k - 1]))
        # (k >= 1 /\ k <= Len(s) /\ IsWordChar(s[k]))

\* all of s[i..j] are digits
AllDigits(s, i, j) == \A k \in i..j : k <= Len(s) /\ s[k] \in Digits

\* str.strip(): leading and trailing whitespace removed
RECURSIVE LStrip(_)
LStrip(s) ==
    IF s # <<>> /\ IsSpaceChar(Head(s)) THEN LStrip(Tail(s)) ELSE s

RECURSIVE RStrip(_)
RStrip(s) ==
    IF s # <<>> /\ IsSpaceChar(s[Len(s)])
    THEN RStrip(SubSeq(s, 1, Len(s) - 1))
    ELSE s

Strip(s) == RStrip(LStrip(s))

(***************************************************************************)
(* Message Generalizer: TransformTask._generalize_message and the nested   *)
(* generalize_message of run_dask_pipeline (the same six statements).      *)
(***************************************************************************)
IpToken == <<"i", "p", "_", "a", "d", "d", "r", "e", "s", "s">>
HexToken == <<"h", "e", "x", "_", "v", "a", "l", "u", "e">>
NumberToken == <<"n", "u", "m", "b", "e", "r">>

\* a message value: a string, or a value that is no string (None, NaN)
Str(s) == [isstr |-> TRUE, chars |-> s]
NonString == [isstr |-> FALSE, chars |-> <<>>]

\* text.lower()
RECURSIVE LowerAll(_)
LowerAll(s) ==
    IF s = <<>> THEN <<>> ELSE <<ToLower(Head(s))>> \o LowerAll(Tail(s))

\* \b\d{1,3}\.\d{1,3}\.\d{1,3}\.\d{1,3}\b tried at position i: the position
\* after the match, or 0. The quantifiers are greedy: the longest octets first.
OctetEnds(s, i) == {i + l : l \in {n \in 1..3 : AllDigits(s, i, i + n - 1)}}

DotAt(s, k) == k <= Len(s) /\ s[k] = "."

IpMatchEnds(s, i) ==
    IF ~(WordBoundary(s, i) /\ i <= Len(s) /\ s[i] \in Digits)
    THEN {}
    ELSE {e4 \in 1..(Len(s) + 1) :
            \E e1 \in OctetEnds(s, i) :
               /\ DotAt(s, e1)
               /\ \E e2 \in OctetEnds(s, e1 + 1) :
                     /\ DotAt(s, e2)
                     /\ \E e3 \in OctetEnds(s, e2 + 1) :
                           /\ DotAt(s, e3)
                           /\ e4 \in OctetEnds(s, e3 + 1)
                           /\ WordBoundary(s, e4)}

MatchIP(s, i) ==
    LET ends == IpMatchEnds(s, i)
    IN  IF ends = {} THEN 0 ELSE CHOOSE e \in ends : \A f \in ends : f <= e

\* re.sub(r'\b\d{1,3}\.\d{1,3}\.\d{1,3}\.\d{1,3}\b', 'ip_address', text)
RECURSIVE SubIPFrom(_, _)
SubIPFrom(s, i) ==
    IF i > Len(s) THEN <<>>
    ELSE LET e == MatchIP(s, i)
         IN  IF e > 0 THEN IpToken \o SubIPFrom(s, e)
             ELSE <<s[i]>> \o SubIPFrom(s, i + 1)

SubIP(s) == SubIPFrom(s, 1)

\* the end of the longest run of characters of set cs that starts at i
\* (the position after it; i itself when s[i] is not in cs)
RECURSIVE RunEnd(_, _, _)
RunEnd(s, i, cs) ==
    IF i <= Len(s) /\ s[i] \in cs THEN RunEnd(s, i + 1, cs) ELSE i

\* 0x[0-9a-f]+ tried at position i: the position after the match, or 0
MatchHex(s, i) ==
    IF i + 2 <= Len(s) /\ s[i] = "0" /\ s[i + 1] = "x" /\ s[i + 2] \in HexChars
    THEN RunEnd(s, i + 2, HexChars)
    ELSE 0

\* re.sub(r'0x[0-9a-f]+', 'hex_value', text)
RECURSIVE SubHexFrom(_, _)
SubHexFrom(s, i) ==
    IF i > Len(s) THEN <<>>
    ELSE LET e == MatchHex(s, i)
         IN  IF e > 0 THEN HexToken \o SubHexFrom(s, e)
             ELSE <<s[i]>> \o SubHexFrom(s, i + 1)

SubHex(s) == SubHexFrom(s, 1)

\* \b\d+\b tried at position i: the position after the match, or 0.
\* \d+ is greedy and gives digits back until \b holds after it.
MatchNumber(s, i) ==
    IF ~(WordBoundary(s, i) /\ i <= Len(s) /\ s[i] \in Digits)
    THEN 0
    ELSE LET ends == {e \in (i + 1)..RunEnd(s, i, Digits) : WordBoundary(s, e)}
         IN  IF ends = {} THEN 0 ELSE CHOOSE e \in ends : \A f \in ends : f <= e

\* re.sub(r'\b\d+\b', 'number', text)
RECURSIVE SubNumberFrom(_, _)
SubNumberFrom(s, i) ==
    IF i > Len(s) THEN <<>>
    ELSE LET e == MatchNumber(s, i)
         IN  IF e > 0 THEN NumberToken \o SubNumberFrom(s, e)
             ELSE <<s[i]>> \o SubNumberFrom(s, i + 1)

SubNumber(s) == SubNumberFrom(s, 1)

\* a slip: the punctuation is deleted instead of replaced by a space
RECURSIVE SubPunctDeleting(_)
SubPunctDeleting(s) ==
    IF s = <<>> THEN <<>>
    ELSE (IF IsWordChar(Head(s)) \/ IsSpaceChar(Head(s)) THEN <<Head(s)>> ELSE <<>>)
             \o SubPunctDeleting(Tail(s))

\* re.sub(r'[^\w\s]', ' ', text)
RECURSIVE SubPunct(_)
SubPunct(s) ==
    IF s = <<>> THEN <<>>
    ELSE <<IF IsWordChar(Head(s)) \/ IsSpaceChar(Head(s)) THEN Head(s) ELSE " ">>
             \o SubPunct(Tail(s))

\* re.sub(r'\s+', ' ', text)
RECURSIVE CollapseFrom(_, _)
CollapseFrom(s, i) ==
    IF i > Len(s) THEN <<>>
    ELSE IF IsSpaceChar(s[i])
         THEN <<" ">> \o CollapseFrom(s, RunEnd(s, i, {" ", "\t", "\n", "\r"}))
         ELSE <<s[i]>> \o CollapseFrom(s, i + 1)

CollapseSpaces(s) == CollapseFrom(s, 1)

\* a slip: the standalone numbers are masked before the IPv4 addresses
GeneralizeNumbersFirst(text) ==
    IF ~text.isstr THEN <<>>
    ELSE Strip(CollapseSpaces(SubPunct(SubHex(SubIP(SubNumber(LowerAll(text.chars)))))))

\* _generalize_message(text): the six rules in the order of the code
generalize_message(text) ==
    IF ~text.isstr THEN <<>>
    ELSE Strip(CollapseSpaces(SubPunct(SubNumber(SubHex(SubIP(LowerAll(text.chars)))))))

(***************************************************************************)
(* Line Parser: parse_log_line (dask_processing.py) and                    *)
(* TransformTask._parse_log_line (etl_flow.py). Both match the pattern     *)
(*   timestamp \s+ level:\w+ \s+ category:[^:]+ ":" \s+ message:rest       *)
(* with re.match, that is at the start of the line and not to its end.     *)
(***************************************************************************)
SpaceChars == {" ", "\t", "\n", "\r"}
WordChars == Letters \cup Digits \cup {"_"}

\* Python's None
NoRecord == [none |-> TRUE]

\* \d{4}-\d{2}-\d{2}T\d{2}:\d{2}:\d{2}, "d" standing for \d
TsShape ==
    <<"d", "d", "d", "d", "-", "d", "d", "-", "d", "d", "T",
      "d", "d", ":", "d", "d", ":", "d", "d">>

MatchTimestamp(s) ==
    /\ Len(s) >= Len(TsShape)
    /\ \A k \in 1..Len(TsShape) :
          IF TsShape[k] = "d" THEN s[k] \in Digits ELSE s[k] = TsShape[k]

\* the first position >= i holding character c, or 0
RECURSIVE FirstIndex(_, _, _)
FirstIndex(s, i, c) ==
    IF i > Len(s) THEN 0
    ELSE IF s[i] = c THEN i ELSE FirstIndex(s, i + 1, c)

\* re.match(regex, s): the four groups, or NoRecord. Each of \s+, \w+ and
\* [^:]+ is greedy; the whitespace before the category gives characters
\* back to [^:]+ when nothing else is left for it.
RegexMatch(s) ==
    IF ~MatchTimestamp(s) THEN NoRecord
    ELSE
    LET t   == Len(TsShape) + 1
        w   == RunEnd(s, t, SpaceChars)        \* the level starts here
        l   == RunEnd(s, w, WordChars)         \* the position after the level
        g   == RunEnd(s, l, SpaceChars)        \* the end of the whitespace after it
        col == FirstIndex(s, l, ":")           \* [^:]+ cannot pass a colon
        starts == {q \in (l + 1)..g : q < col} \* where the category may start
        m   == RunEnd(s, col + 1, SpaceChars)  \* the message starts here
        nl  == FirstIndex(s, m, "\n")          \* . does not match a newline
    IN  IF w = t \/ l = w \/ g = l \/ col = 0 \/ starts = {} \/ m = col + 1
        THEN NoRecord
        ELSE LET q == CHOOSE x \in starts : \A y \in starts : y <= x
             IN  [ts       |-> SubSeq(s, 1, t - 1),
                  level    |-> SubSeq(s, w, l - 1),
                  category |-> SubSeq(s, q, col - 1),
                  message  |-> SubSeq(s, m, IF nl = 0 THEN Len(s) ELSE nl - 1)]

LevelWARNING == <<"W", "A", "R", "N", "I", "N", "G">>
LevelERROR == <<"E", "R", "R", "O", "R">>

\* a slip: the level is compared without regard to case
IsAnomalyLevelAnyCase(level) ==
    LowerAll(level) \in {LowerAll(LevelWARNING), LowerAll(LevelERROR)}

\* a slip: every level is taken for an anomaly
IsAnyLevel(level) == TRUE

\* level in ['WARNING', 'ERROR']
IsAnomalyLevel(level) == level \in {LevelWARNING, LevelERROR}

\* the record a matching line yields
LineRecord(m, logtext) ==
    [Timestamp |-> m.ts, Level |-> m.level, Category |-> m.category,
     Message |-> m.message, log |-> logtext]

\* parse_log_line(line): the line is stripped by the parser itself
parse_log_line(line) ==
    LET m == RegexMatch(Strip(line))
    IN  IF m # NoRecord /\ IsAnomalyLevel(m.level)
        THEN LineRecord(m, Strip(line))
        ELSE NoRecord

\* TransformTask._parse_log_line(line): the caller strips the line
etl_parse_log_line(line) ==
    LET m == RegexMatch(line)
    IN  IF m # NoRecord /\ IsAnomalyLevel(m.level)
        THEN LineRecord(m, line)
        ELSE NoRecord

(***************************************************************************)
(* File Ingest Worker: process_single_log_file, read_and_parse_file        *)
(* (dask_processing.py) and the loop body of _sequential_parse.            *)
(***************************************************************************)
NoFault == -1

InfoMarker == <<" ", "I", "N", "F", "O", " ">>

\* needle in line
Contains(line, needle) ==
    \E i \in 1..(Len(line) - Len(needle) + 1) :
        SubSeq(line, i, i + Len(needle) - 1) = needle

\* "if ' INFO ' in line: continue"
SkippedByPrefilter(line) == Contains(line, InfoMarker)

\* a slip: the lines are numbered from 0
StampFromZero(parsed, filename, line_num) ==
    [Timestamp |-> parsed.Timestamp, Level |-> parsed.Level,
     Category |-> parsed.Category, Message |-> parsed.Message, log |-> parsed.log,
     file_name |-> filename, line_number |-> line_num - 1]

\* parsed['file_name'] = filename; parsed['line_number'] = line_num
Stamp(parsed, filename, line_num) ==
    [Timestamp |-> parsed.Timestamp, Level |-> parsed.Level,
     Category |-> parsed.Category, Message |-> parsed.Message, log |-> parsed.log,
     file_name |-> filename, line_number |-> line_num]

\* os.path.basename(filepath): the path without its directory
basename(file) == file.name

\* how many lines the loop body sees: all of them, or those read before the failure
LinesRead(file, flt) == IF flt = NoFault THEN Len(file.lines) ELSE flt

\* the body of "for line_num, line in enumerate(f, 1)", lines i..n, with parse_log_line
RECURSIVE DaskLoop(_, _, _)
DaskLoop(file, i, n) ==
    IF i > n THEN <<>>
    ELSE LET line == file.lines[i]
             parsed == parse_log_line(line)
         IN  (IF ~SkippedByPrefilter(line) /\ parsed # NoRecord
              THEN <<Stamp(parsed, basename(file), i)>>
              ELSE <<>>) \o DaskLoop(file, i + 1, n)

\* process_single_log_file(filepath): the except clause returns what was appended
process_single_log_file(file, flt) == DaskLoop(file, 1, LinesRead(file, flt))

\* a slip: the fast pre-filter on " INFO " is left out
RECURSIVE LoopWithoutPrefilter(_, _, _)
LoopWithoutPrefilter(file, i, n) ==
    IF i > n THEN <<>>
    ELSE LET parsed == parse_log_line(file.lines[i])
         IN  (IF parsed # NoRecord THEN <<Stamp(parsed, basename(file), i)>> ELSE <<>>)
                 \o LoopWithoutPrefilter(file, i + 1, n)

ReadAndParseUnfiltered(file, flt) == LoopWithoutPrefilter(file, 1, LinesRead(file, flt))

\* read_and_parse_file(filepath), the nested function of process_logs_with_bag
read_and_parse_file(file, flt) == DaskLoop(file, 1, LinesRead(file, flt))

\* the body of the file loop of _sequential_parse, lines i..n
RECURSIVE EtlLoop(_, _, _)
EtlLoop(file, i, n) ==
    IF i > n THEN <<>>
    ELSE LET line == file.lines[i]
             parsed == etl_parse_log_line(Strip(line))
         IN  (IF ~SkippedByPrefilter(line) /\ parsed # NoRecord
              THEN <<Stamp(parsed, basename(file), i)>>
              ELSE <<>>) \o EtlLoop(file, i + 1, n)

\* one iteration of "for filepath in log_files" of _sequential_parse
sequential_file(file, flt) == EtlLoop(file, 1, LinesRead(file, flt))

(***************************************************************************)
(* The frame operations shared by the three parse functions:               *)
(*   pd.to_datetime(errors='coerce'), dropna, sort_values, reset_index     *)
(***************************************************************************)
NaT == <<>>

DigitSeq == <<"0", "1", "2", "3", "4", "5", "6", "7", "8", "9">>
DigitVal(c) == (CHOOSE n \in 1..10 : DigitSeq[n] = c) - 1
Num2(s, i) == 10 * DigitVal(s[i]) + DigitVal(s[i + 1])
Num4(s, i) == 100 * Num2(s, i) + Num2(s, i + 2)

IsLeap(y) == (y % 4 = 0 /\ y % 100 # 0) \/ y % 400 = 0
DaysIn(y, m) ==
    IF m = 2 THEN (IF IsLeap(y) THEN 29 ELSE 28)
    ELSE IF m \in {4, 6, 9, 11} THEN 30 ELSE 31

\* the first and last year all of whose instants a datetime64[ns] holds
MinYear == 1678
MaxYear == 2261

\* pd.to_datetime(text, errors='coerce'): the instant as <<y, m, d, h, min, s>>,
\* or NaT for a text that is no date of the calendar
to_datetime(ts) ==
    LET y == Num4(ts, 1)   mo == Num2(ts, 6)   d == Num2(ts, 9)
        h == Num2(ts, 12)  mi == Num2(ts, 15)  sec == Num2(ts, 18)
    IN  IF /\ y >= MinYear /\ y <= MaxYear
           /\ mo >= 1 /\ mo <= 12
           /\ d >= 1 /\ d <= DaysIn(y, mo)
           /\ h <= 23 /\ mi <= 59 /\ sec <= 59
        THEN <<y, mo, d, h, mi, sec>>
        ELSE NaT

\* a < b on instants
RECURSIVE LexLess(_, _)
LexLess(a, b) ==
    IF a = <<>> \/ b = <<>> THEN FALSE
    ELSE IF Head(a) # Head(b) THEN Head(a) < Head(b)
    ELSE LexLess(Tail(a), Tail(b))

\* df['Timestamp'] = pd.to_datetime(df['Timestamp'], errors='coerce')
RECURSIVE ConvertTimestamps(_)
ConvertTimestamps(recs) ==
    IF recs = <<>> THEN <<>>
    ELSE <<[Head(recs) EXCEPT !.Timestamp = to_datetime(@)]>>
             \o ConvertTimestamps(Tail(recs))

\* df.dropna(subset=['Timestamp'])
DropNaT(recs) == SelectSeq(recs, LAMBDA r : r.Timestamp # NaT)

\* r placed into the sorted sequence: after its equals when the sort keeps
\* their order, before them when it does not
RECURSIVE InsertByTimestamp(_, _, _)
InsertByTimestamp(sorted, r, tie) ==
    IF sorted = <<>> THEN <<r>>
    ELSE IF \/ LexLess(r.Timestamp, Head(sorted).Timestamp)
            \/ (tie = "reverse" /\ r.Timestamp = Head(sorted).Timestamp)
         THEN <<r>> \o sorted
         ELSE <<Head(sorted)>> \o InsertByTimestamp(Tail(sorted), r, tie)

\* a slip: the frame is returned in the order of concatenation
NotSorted(recs, tie) == recs

\* df.sort_values(by='Timestamp').reset_index(drop=True): ascending; the order
\* of equal timestamps is the sort's own, the same for the same input
RECURSIVE sort_values(_, _)
sort_values(recs, tie) ==
    IF recs = <<>> THEN <<>>
    ELSE InsertByTimestamp(sort_values(SubSeq(recs, 1, Len(recs) - 1), tie),
                           recs[Len(recs)], tie)

\* the tail of the three parse functions: "if not all_records: return
\* pd.DataFrame()", else the frame converted, cleaned and sorted
FinishFrame(recs, tie) ==
    IF recs = <<>> THEN <<>>
    ELSE sort_values(DropNaT(ConvertTimestamps(recs)), tie)

\* the results of units 1..n concatenated in the order of the units
RECURSIVE ConcatUnits(_, _)
ConcatUnits(res, n) ==
    IF n = 0 THEN <<>> ELSE ConcatUnits(res, n - 1) \o res[n]

(***************************************************************************)
(* SpecGen: the generalizer applied to every message made of at most       *)
(* MaxChunks pieces, to the example message of the specification, and to   *)
(* a value that is no string.                                              *)
(***************************************************************************)
MaxChunks == 4

Chunks ==
    { <<"7">>, <<".">>, <<"1", ".", "2", ".", "3", ".", "4">>, <<"0", "x">>,
      <<"F">>, <<" ">>, <<"-">>, <<"_">>, <<"0">> }

RECURSIVE ChunkStrings(_)
ChunkStrings(n) ==
    IF n = 0 THEN {<<>>}
    ELSE LET P == ChunkStrings(n - 1)
         IN  P \cup {p \o c : p \in P, c \in Chunks}

ExampleMessage ==
    <<"F", "a", "i", "l", "u", "r", "e", " ", "a", "t", " ", "1", "9", "2", ".", "1",
      "6", "8", ".", "1", ".", "5", " ", "c", "o", "d", "e", " ", "0", "x", "1", "F",
      " ", "a", "f", "t", "e", "r", " ", "3", " ", "r", "e", "t", "r", "i", "e", "s">>

ExampleGeneralized ==
    <<"f", "a", "i", "l", "u", "r", "e", " ", "a", "t", " ", "i", "p", "_", "a", "d",
      "d", "r", "e", "s", "s", " ", "c", "o", "d", "e", " ", "h", "e", "x", "_", "v",
      "a", "l", "u", "e", " ", "a", "f", "t", "e", "r", " ", "n", "u", "m", "b", "e",
      "r", " ", "r", "e", "t", "r", "i", "e", "s">>

GenInputs ==
    {Str(s) : s \in ChunkStrings(MaxChunks)} \cup {Str(ExampleMessage), NonString}

GenIdle == msg_in = NonString /\ msg_out = NotRun /\ msg_out2 = NotRun
ParseIdle == line_in = <<>> /\ parsed_dask = NotRun /\ parsed_etl = NotRun
IngestIdle ==
    /\ log_files = <<>> /\ fault = <<>> /\ tie_order = "keep" /\ ing_pc = "off"
    /\ unit_res = <<>> /\ seq_i = 0 /\ all_records = <<>>
    /\ df_tasks = NotRun /\ df_bag = NotRun /\ df_seq = NotRun

None == [none |-> TRUE]
NoTime == 0

\* a LoadTask.execute called at time by that did not call _save_to_postgres
NoPgCall(by) ==
    [by |-> by, calls |-> 0, opened |-> 0, closed |-> 0, commits |-> 0, raised |-> FALSE]

Absent == [absent |-> TRUE]
NoExc == [noexc |-> TRUE]

Stages == {"extract", "transform", "load"}
ResultKeys == Stages \cup {"pipeline"}

PipeIdle ==
    /\ dask_available = FALSE /\ postgres_available = FALSE
    /\ clock = 0 /\ pc = "off" /\ stage = "none" /\ call = None
    /\ t_status = [s \in Stages |-> "pending"]
    /\ t_start = [s \in Stages |-> NoTime]
    /\ t_end = [s \in Stages |-> NoTime]
    /\ t_result = [s \in Stages |-> None]
    /\ t_error = [s \in Stages |-> None]
    /\ results = [k \in ResultKeys |-> Absent]
    /\ exec_exc = NoExc
    /\ outcome = [kind |-> "none"]
    /\ sink_files = {} /\ db_rows = {} /\ open_conns = 0
    /\ pg_log = NoPgCall(NoTime)
    /\ worker_calls = <<>>

GenInit ==
    /\ msg_in \in GenInputs
    /\ msg_out = NotRun
    /\ msg_out2 = NotRun
    /\ ParseIdle
    /\ IngestIdle
    /\ PipeIdle

\* logs_df['Message'].apply(self._generalize_message)
Generalize ==
    /\ msg_out = NotRun
    /\ msg_out' = Str(generalize_message(msg_in))
    /\ UNCHANGED <<msg_in, msg_out2, parseVars, ingestVars, pipeVars>>

\* the generalizer applied to its own output
GeneralizeAgain ==
    /\ msg_out # NotRun
    /\ msg_out2 = NotRun
    /\ msg_out2' = Str(generalize_message(msg_out))
    /\ UNCHANGED <<msg_in, msg_out, parseVars, ingestVars, pipeVars>>

GenNext == Generalize \/ GeneralizeAgain

vars == <<genVars, parseVars, ingestVars, pipeVars>>

SpecGen == GenInit /\ [][GenNext]_vars

\* C8: the generalizer is idempotent: generalize(generalize(x)) = generalize(x)
\* for every string x.
C8_Idempotent ==
    (msg_in.isstr /\ msg_out2 # NotRun) => msg_out2 = msg_out

\* an input on which the second pass meets the tokens the first pass wrote
C8_Witness ==
    /\ msg_in = Str(<<"0", "x", "F", "-", "7">>)
    /\ msg_out = Str(HexToken \o <<" ">> \o NumberToken)
    /\ msg_out2 = msg_out

\* C9: the six rules are applied in the order lowercase, IPv4, hex, numbers,
\* punctuation, collapse and trim: the example message of the specification
\* generalizes to its documented template, and a non-string yields "".
C9_OrderAndExample ==
    msg_out # NotRun =>
        /\ (msg_in = Str(ExampleMessage) => msg_out = Str(ExampleGeneralized))
        /\ (~msg_in.isstr => msg_out = Str(<<>>))
        /\ (msg_in = Str(<<"1", ".", "2", ".", "3", ".", "4">>) => msg_out = Str(IpToken))
        /\ (msg_in = Str(<<"0", "x", "7">>) => msg_out = Str(HexToken))
        /\ (msg_in = Str(<<"0", "x", "F", "-", "7">>)
                => msg_out = Str(HexToken \o <<" ">> \o NumberToken))

C9_Witness ==
    /\ msg_in = Str(ExampleMessage)
    /\ msg_out = Str(ExampleGeneralized)

(***************************************************************************)
(* SpecParse: the Line Parser applied to every line made of an optional    *)
(* leading blank, a timestamp, a separator, a level word, a separator and  *)
(* at most MaxRest further characters.                                     *)
(***************************************************************************)
MaxRest == 4

TsGood == <<"2", "0", "2", "5", "-", "0", "1", "-", "0", "1", "T", "1", "0", ":", "0", "0", ":", "0", "0">>
TsBadDate == <<"2", "0", "2", "5", "-", "1", "3", "-", "0", "1", "T", "1", "0", ":", "0", "0", ":", "0", "0">>
TsMalformed == <<"2", "0", "2", "5", "-", "0", "1", "-", "0", "1", " ", "1", "0", ":", "0", "0", ":", "0", "0">>

LineLeads == {<<>>, <<" ">>}
LineStamps == {TsGood, TsBadDate, TsMalformed}
LineSeps1 == {<<>>, <<" ">>, <<"\t", " ">>}
LineLevels ==
    {LevelERROR, LevelWARNING, <<"I", "N", "F", "O">>, <<"e", "r", "r", "o", "r">>, <<"E", "R", "R", "O", "R", "S">>}
LineSeps2 == {<<>>, <<" ">>}
RestChars == {"c", ":", " "}

RECURSIVE RestStrings(_)
RestStrings(n) ==
    IF n = 0 THEN {<<>>}
    ELSE LET P == RestStrings(n - 1)
         IN  P \cup {p \o <<c>> : p \in P, c \in RestChars}

ParseInputs ==
    {a \o b \o c \o d \o e \o f :
        a \in LineLeads, b \in LineStamps, c \in LineSeps1, d \in LineLevels,
        e \in LineSeps2, f \in RestStrings(MaxRest)}

ParseInit ==
    /\ line_in \in ParseInputs
    /\ parsed_dask = NotRun
    /\ parsed_etl = NotRun
    /\ GenIdle
    /\ IngestIdle
    /\ PipeIdle

\* parsed = parse_log_line(line), dask_processing.py
ParseDask ==
    /\ parsed_dask = NotRun
    /\ parsed_dask' = parse_log_line(line_in)
    /\ UNCHANGED <<line_in, parsed_etl, genVars, ingestVars, pipeVars>>

\* parsed = self._parse_log_line(line.strip()), etl_flow.py
ParseEtl ==
    /\ parsed_etl = NotRun
    /\ parsed_etl' = etl_parse_log_line(Strip(line_in))
    /\ UNCHANGED <<line_in, parsed_dask, genVars, ingestVars, pipeVars>>

ParseNext == ParseDask \/ ParseEtl

SpecParse == ParseInit /\ [][ParseNext]_vars

\* The shape of the claim, stated as a split of the trimmed line and not as
\* a scan: timestamp, whitespace, level word, whitespace, a category without
\* a colon, the colon, whitespace, message; the level being WARNING or ERROR.
AllIn(s, i, j, cs) == i <= j /\ \A k \in i..j : s[k] \in cs

ShapeWithAnomalyLevel(s) ==
    /\ MatchTimestamp(s)
    /\ \E a \in 20..Len(s) :
          /\ AllIn(s, 20, a, SpaceChars)
          /\ \E b \in (a + 1)..Len(s) :
                /\ AllIn(s, a + 1, b, WordChars)
                /\ SubSeq(s, a + 1, b) \in {LevelWARNING, LevelERROR}
                /\ \E c \in (b + 1)..Len(s) :
                      /\ AllIn(s, b + 1, c, SpaceChars)
                      /\ \E d \in (c + 1)..Len(s) :
                            /\ \A k \in (c + 1)..d : s[k] # ":"
                            /\ d + 2 <= Len(s)
                            /\ s[d + 1] = ":"
                            /\ s[d + 2] \in SpaceChars

\* C7: the Line Parser returns a record exactly for the lines whose trimmed
\* text has the timestamp-level-category-message shape with level WARNING or
\* ERROR; the record carries that level and the trimmed line.
C7_ParserIffShape ==
    /\ parsed_dask # NotRun =>
          /\ (parsed_dask # NoRecord) <=> ShapeWithAnomalyLevel(Strip(line_in))
          /\ parsed_dask # NoRecord =>
                /\ parsed_dask.Level \in {LevelWARNING, LevelERROR}
                /\ parsed_dask.log = Strip(line_in)
    /\ parsed_etl # NotRun =>
          /\ (parsed_etl # NoRecord) <=> ShapeWithAnomalyLevel(Strip(line_in))
          /\ parsed_etl # NoRecord =>
                /\ parsed_etl.Level \in {LevelWARNING, LevelERROR}
                /\ parsed_etl.log = Strip(line_in)

C7_Witness ==
    /\ line_in = <<" ">> \o TsGood \o <<"\t", " ">> \o LevelWARNING
                     \o <<" ", "c", ":", " ", "c">>
    /\ parsed_dask # NotRun /\ parsed_dask # NoRecord
    /\ parsed_dask.Category = <<"c">> /\ parsed_dask.Message = <<"c">>
    /\ parsed_etl = parsed_dask

(***************************************************************************)
(* SpecIngest: a directory of at most MaxFiles of the files below, each    *)
(* read with or without a failure, parsed by parallel_parse_logs (one task *)
(* per file) and then by process_logs_with_bag (map, then flatten), or by  *)
(* the sequential loop of _sequential_parse.                               *)
(***************************************************************************)
MaxFiles == 2

TsLater == <<"2", "0", "2", "5", "-", "0", "1", "-", "0", "2", "T", "0", "9", ":", "0", "0", ":", "0", "0">>

LineErrorLater == TsLater \o <<" ", "E", "R", "R", "O", "R", " ", "c", ":", " ", "m", "\n">>
LineWarning == TsGood \o <<" ", "W", "A", "R", "N", "I", "N", "G", " ", "c", ":", " ", "m", "\n">>
LineError == TsGood \o <<" ", "E", "R", "R", "O", "R", " ", "d", ":", " ", "m", "\n">>
LineInfo == TsGood \o <<" ", "I", "N", "F", "O", " ", "c", ":", " ", "m", "\n">>
LineInfoTabs == TsGood \o <<"\t", "I", "N", "F", "O", "\t", "c", ":", " ", "m", "\n">>
LineErrorInfoText == TsGood \o <<" ", "E", "R", "R", "O", "R", " ", "c", ":", " ", "m", " ", "I", "N", "F", "O", " ", "m", "\n">>
LineErrorBadDate == TsBadDate \o <<" ", "E", "R", "R", "O", "R", " ", "c", ":", " ", "m", "\n">>
LineJunk == <<"j", "u", "n", "k", "\n">>

CorpusFiles ==
    << [dir |-> "logs", name |-> "a.txt",
        lines |-> <<LineErrorLater, LineInfo, LineWarning>>],
       [dir |-> "logs", name |-> "b.txt", lines |-> <<LineError, LineErrorBadDate>>],
       [dir |-> "logs", name |-> "c.txt",
        lines |-> <<LineErrorInfoText, LineInfoTabs, LineJunk>>],
       [dir |-> "logs", name |-> "d.txt", lines |-> <<LineWarning>>] >>

\* the listings glob can return: the sequences of distinct files
RECURSIVE Listings(_)
Listings(n) ==
    IF n = 0 THEN {<<>>}
    ELSE LET P == Listings(n - 1)
         IN  P \cup UNION {{Append(l, f) :
                               f \in {g \in 1..Len(CorpusFiles) :
                                        \A i \in 1..Len(l) : l[i] # g}} : l \in P}

FileAt(i) == CorpusFiles[log_files[i]]
NFiles == Len(log_files)

Done(x) == [val |-> x]

IngestInit ==
    /\ log_files \in Listings(MaxFiles)
    /\ fault \in [1..Len(log_files) -> {NoFault} \cup 0..3]
    /\ \A i \in 1..Len(log_files) : fault[i] <= Len(CorpusFiles[log_files[i]].lines)
    /\ tie_order \in {"keep", "reverse"}
    /\ ing_pc \in {"tasks_ready", "seq_loop"}
    /\ unit_res = <<>>
    /\ seq_i = 1
    /\ all_records = <<>>
    /\ df_tasks = NotRun /\ df_bag = NotRun /\ df_seq = NotRun
    /\ GenIdle /\ ParseIdle /\ PipeIdle

\* parallel_parse_logs up to the creation of the delayed tasks; without
\* files it returns an empty frame at once
DispatchTasks ==
    /\ ing_pc = "tasks_ready"
    /\ IF log_files = <<>>
       THEN /\ df_tasks' = Done(<<>>)
            /\ ing_pc' = "bag_ready"
            /\ UNCHANGED unit_res
       ELSE /\ unit_res' = [i \in 1..NFiles |-> NotRun]
            /\ ing_pc' = "tasks_run"
            /\ UNCHANGED df_tasks
    /\ UNCHANGED <<log_files, fault, tie_order, seq_i, all_records, df_bag, df_seq>>
    /\ UNCHANGED <<genVars, parseVars, pipeVars>>

\* the scheduler runs one delayed process_single_log_file task, in any order
RunTask(i) ==
    /\ ing_pc = "tasks_run"
    /\ unit_res[i] = NotRun
    /\ unit_res' = [unit_res EXCEPT ![i] = Done(process_single_log_file(FileAt(i), fault[i]))]
    /\ UNCHANGED <<log_files, fault, tie_order, ing_pc, seq_i, all_records,
                   df_tasks, df_bag, df_seq>>
    /\ UNCHANGED <<genVars, parseVars, pipeVars>>

\* what the units have returned so far
UnitValues ==
    [i \in 1..NFiles |-> IF unit_res[i] = NotRun THEN <<>> ELSE unit_res[i].val]

\* a slip: the results are merged as soon as one unit has finished
SomeUnitDone == \E i \in 1..NFiles : unit_res[i] # NotRun

\* compute(...) returns when every unit has returned
AllUnitsDone == \A i \in 1..NFiles : unit_res[i] # NotRun

\* results = compute(*delayed_results), the extend loop and the frame
GatherTasksFrame == FinishFrame(ConcatUnits(UnitValues, NFiles), tie_order)

\* compute returns when every task has finished
GatherTasks ==
    /\ ing_pc = "tasks_run"
    /\ AllUnitsDone
    /\ df_tasks' = Done(GatherTasksFrame)
    /\ unit_res' = <<>>
    /\ ing_pc' = "bag_ready"
    /\ UNCHANGED <<log_files, fault, tie_order, seq_i, all_records, df_bag, df_seq>>
    /\ UNCHANGED <<genVars, parseVars, pipeVars>>

\* process_logs_with_bag up to db.from_sequence(log_files): below a hundred
\* files every file is a partition of its own
DispatchBag ==
    /\ ing_pc = "bag_ready"
    /\ IF log_files = <<>>
       THEN /\ df_bag' = Done(<<>>)
            /\ ing_pc' = "end"
            /\ UNCHANGED unit_res
       ELSE /\ unit_res' = [i \in 1..NFiles |-> NotRun]
            /\ ing_pc' = "bag_run"
            /\ UNCHANGED df_bag
    /\ UNCHANGED <<log_files, fault, tie_order, seq_i, all_records, df_tasks, df_seq>>
    /\ UNCHANGED <<genVars, parseVars, pipeVars>>

\* bag.map(read_and_parse_file).flatten() on one partition, in any order
RunPartition(i) ==
    /\ ing_pc = "bag_run"
    /\ unit_res[i] = NotRun
    /\ unit_res' = [unit_res EXCEPT ![i] = Done(read_and_parse_file(FileAt(i), fault[i]))]
    /\ UNCHANGED <<log_files, fault, tie_order, ing_pc, seq_i, all_records,
                   df_tasks, df_bag, df_seq>>
    /\ UNCHANGED <<genVars, parseVars, pipeVars>>

\* .compute() of the bag: the partitions in their order, then the frame
GatherBagFrame == FinishFrame(ConcatUnits(UnitValues, NFiles), tie_order)

GatherBag ==
    /\ ing_pc = "bag_run"
    /\ AllUnitsDone
    /\ df_bag' = Done(GatherBagFrame)
    /\ unit_res' = <<>>
    /\ ing_pc' = "end"
    /\ UNCHANGED <<log_files, fault, tie_order, seq_i, all_records, df_tasks, df_seq>>
    /\ UNCHANGED <<genVars, parseVars, pipeVars>>

\* one iteration of the file loop of _sequential_parse
SeqFile ==
    /\ ing_pc = "seq_loop"
    /\ seq_i <= NFiles
    /\ all_records' = all_records \o sequential_file(FileAt(seq_i), fault[seq_i])
    /\ seq_i' = seq_i + 1
    /\ UNCHANGED <<log_files, fault, tie_order, ing_pc, unit_res, df_tasks, df_bag, df_seq>>
    /\ UNCHANGED <<genVars, parseVars, pipeVars>>

\* the end of _sequential_parse: the frame of all_records
SeqFinish ==
    /\ ing_pc = "seq_loop"
    /\ seq_i > NFiles
    /\ df_seq' = Done(FinishFrame(all_records, tie_order))
    /\ ing_pc' = "end"
    /\ UNCHANGED <<log_files, fault, tie_order, unit_res, seq_i, all_records,
                   df_tasks, df_bag>>
    /\ UNCHANGED <<genVars, parseVars, pipeVars>>

IngestNext ==
    \/ DispatchTasks
    \/ \E i \in 1..NFiles : RunTask(i)
    \/ GatherTasks
    \/ DispatchBag
    \/ \E i \in 1..NFiles : RunPartition(i)
    \/ GatherBag
    \/ SeqFile
    \/ SeqFinish

SpecIngest == IngestInit /\ [][IngestNext]_vars

\* what a file contributes when a failed read contributes nothing
HealthyTaskRecords(i) ==
    IF fault[i] = NoFault THEN process_single_log_file(FileAt(i), NoFault) ELSE <<>>

HealthySeqRecords(i) ==
    IF fault[i] = NoFault THEN sequential_file(FileAt(i), NoFault) ELSE <<>>

\* C4: a file whose open or read fails contributes an empty sequence, at
\* whatever line the failure occurs, and every other file contributes all of
\* its records, on the task path as on the sequential path.
C4_FailingFileYieldsNothing ==
    /\ ing_pc = "tasks_run" =>
          \A i \in 1..NFiles :
              unit_res[i] # NotRun => unit_res[i].val = HealthyTaskRecords(i)
    /\ df_seq # NotRun =>
          df_seq.val = FinishFrame(ConcatUnits([i \in 1..NFiles |-> HealthySeqRecords(i)],
                                               NFiles), tie_order)

\* C5: on the same files, parallel_parse_logs and process_logs_with_bag
\* return the same records in the same order.
C5_StrategiesAgree ==
    (df_tasks # NotRun /\ df_bag # NotRun) => df_tasks = df_bag

\* both strategies ran on two files, one read of which failed part-way, and
\* returned three rows
C5_Witness ==
    /\ log_files = <<2, 1>>
    /\ fault = <<1, NoFault>>
    /\ df_tasks # NotRun /\ df_bag # NotRun
    /\ Len(df_tasks.val) = 3
    /\ df_bag = df_tasks

IsSortedFrame(rows) ==
    \A i, j \in 1..Len(rows) : i < j => ~LexLess(rows[j].Timestamp, rows[i].Timestamp)

HasParsedTimestamps(rows) ==
    \A i \in 1..Len(rows) :
        /\ rows[i].Timestamp # NaT
        /\ to_datetime(SubSeq(rows[i].log, 1, Len(TsShape))) # NaT

\* C6: the frame returned on the parallel path and the frame returned on the
\* sequential path are sorted ascending by timestamp, and hold no record
\* whose raw timestamp is no date.
C6_SortedAndParsed ==
    /\ df_tasks # NotRun => IsSortedFrame(df_tasks.val) /\ HasParsedTimestamps(df_tasks.val)
    /\ df_seq # NotRun => IsSortedFrame(df_seq.val) /\ HasParsedTimestamps(df_seq.val)

\* a.txt then b.txt: the later ERROR of a.txt line 1 is moved behind the two
\* records of the earlier instant, and the record of b.txt line 2 is dropped
C6_Witness ==
    /\ log_files = <<1, 2>>
    /\ fault = <<NoFault, NoFault>>
    /\ df_tasks # NotRun
    /\ Len(df_tasks.val) = 3
    /\ df_tasks.val[3].file_name = "a.txt" /\ df_tasks.val[3].line_number = 1
    /\ \A i \in 1..3 : ~(df_tasks.val[i].file_name = "b.txt" /\ df_tasks.val[i].line_number = 2)


(***************************************************************************)
(* Spec: one ETLPipeline object, its three stage objects and the sinks,    *)
(* under repeated ETLPipeline.run calls.                                   *)
(***************************************************************************)
MaxClock == 16

\* the datetime.now() calls of one run that reaches its end: the pipeline's
\* start and end, each stage's start and end
TicksPerRun == 2 + 2 * Cardinality(Stages)

ErrText(m) == [text |-> m]

\* ETLConfig.USE_DASK
USE_DASK == TRUE

\* the file system below the sources: the *.txt files of a directory in the
\* order rglob lists them, each at the top of the directory or nested
DirTree(dir) ==
    CASE dir = "logs" -> << [file |-> CorpusFiles[4], nested |-> FALSE],
                            [file |-> CorpusFiles[2], nested |-> TRUE] >>
      [] dir = "extract" -> << [file |-> CorpusFiles[4], nested |-> FALSE],
                               [file |-> CorpusFiles[1], nested |-> FALSE] >>
      [] OTHER -> <<>>

Sources == {"emptydir", "logs", "logs/d.txt", "logs.zip", "missing"}
Formats == {"all", "postgres", "csv", "excel", "parquet"}

\* Path(source_path).suffix.lower() == '.zip', is_dir(), is_file()
IsZip(src) == src = "logs.zip"
is_dir(src) == src \in {"emptydir", "logs"}
is_file(src) == src = "logs/d.txt"

PathOf(dir, i) == [dir |-> dir, idx |-> i]
FileOf(path) == DirTree(path.dir)[path.idx].file

\* list(dir.rglob("*.txt")) and glob.glob(os.path.join(dir, "*.txt"))
rglob(dir) == [i \in 1..Len(DirTree(dir)) |-> PathOf(dir, i)]
glob(dir) == SelectSeq(rglob(dir), LAMBDA p : ~DirTree(dir)[p.idx].nested)

Returns(r) == [exc |-> NoExc, result |-> r]
Raises(e) == [exc |-> e, result |-> None]

BadZipFile == [type |-> "BadZipFile", msg |-> "File is not a zip file"]
UnsupportedSource == [type |-> "ValueError", msg |-> "unsupported source"]
MemoryError == [type |-> "MemoryError", msg |-> ""]
TypeError == [type |-> "TypeError", msg |-> "'NoneType' object is not subscriptable"]
WriteError(sink) == [type |-> "OSError", msg |-> sink]

extract_from_zip(src, zip_ok) ==
    IF ~zip_ok THEN Raises(BadZipFile)
    ELSE Returns([source_type |-> "zip", source_path |-> src, temp_dir |-> "extract",
                  log_files |-> rglob("extract"),
                  files_count |-> Len(rglob("extract"))])

extract_from_directory(src) ==
    Returns([source_type |-> "directory", source_path |-> src, temp_dir |-> src,
             log_files |-> rglob(src), files_count |-> Len(rglob(src))])

extract_from_file(src) ==
    Returns([source_type |-> "file", source_path |-> src, temp_dir |-> "logs",
             log_files |-> <<PathOf("logs", 1)>>, files_count |-> 1])

\* ExtractTask.execute(source_path); zip_ok: the archive can be read
extract_execute(src, zip_ok) ==
    IF IsZip(src) THEN extract_from_zip(src, zip_ok)
    ELSE IF is_dir(src) THEN extract_from_directory(src)
    ELSE IF is_file(src) THEN extract_from_file(src)
    ELSE Raises(UnsupportedSource)


\* the faults a file read of a pipeline run can meet: none, at open, after a line
PipeFaults == {NoFault, 0, 1}

\* parallel_parse_logs(directory): the files glob lists, one task each
parallel_parse_logs(dir, flts, tie) ==
    LET files == glob(dir)
    IN  IF files = <<>> THEN <<>>
        ELSE FinishFrame(ConcatUnits([i \in 1..Len(files) |->
                            process_single_log_file(FileOf(files[i]), flts[files[i].idx])],
                         Len(files)), tie)

\* TransformTask._sequential_parse(log_files)
sequential_parse(files, flts, tie) ==
    FinishFrame(ConcatUnits([i \in 1..Len(files) |->
                   sequential_file(FileOf(files[i]), flts[files[i].idx])],
                Len(files)), tie)

\* df.empty
empty(df) == df = <<>>

\* logs_df['Generalized_Message'] = logs_df['Message'].apply(self._generalize_message)
AddGeneralized(df) ==
    [i \in 1..Len(df) |->
        [Generalized_Message |-> generalize_message(Str(df[i].Message))] @@ df[i]]

CountLevel(df, level) == Cardinality({i \in 1..Len(df) : df[i].Level = level})

MinTimestamp(df) ==
    df[CHOOSE i \in 1..Len(df) :
           \A j \in 1..Len(df) : ~LexLess(df[j].Timestamp, df[i].Timestamp)].Timestamp
MaxTimestamp(df) ==
    df[CHOOSE i \in 1..Len(df) :
           \A j \in 1..Len(df) : ~LexLess(df[i].Timestamp, df[j].Timestamp)].Timestamp

EmptyStats == [total |-> 0, errors |-> 0, warnings |-> 0]

\* FrameStats, with the warnings counted by the abbreviated token WARN, which
\* no record carries
LevelWARN == <<"W", "A", "R", "N">>
FrameStatsWarnToken(df) ==
    [total |-> Len(df),
     errors |-> CountLevel(df, LevelERROR),
     warnings |-> CountLevel(df, LevelWARN),
     unique_files |-> Cardinality({df[i].file_name : i \in 1..Len(df)}),
     time_range_start |-> MinTimestamp(df),
     time_range_end |-> MaxTimestamp(df)]

FrameStats(df) ==
    [total |-> Len(df),
     errors |-> CountLevel(df, LevelERROR),
     warnings |-> CountLevel(df, LevelWARNING),
     unique_files |-> Cardinality({df[i].file_name : i \in 1..Len(df)}),
     time_range_start |-> MinTimestamp(df),
     time_range_end |-> MaxTimestamp(df)]

\* TransformTask.execute(extract_result); flts: the fault each file read meets,
\* crash: the frame operations on a non-empty frame run out of memory
transform_execute(extract_result, flts, crash, tie) ==
    IF extract_result = None THEN Raises(TypeError)
    ELSE
    LET temp_dir == extract_result.temp_dir
        paths == extract_result.log_files
        logs_df == IF dask_available /\ USE_DASK /\ Len(paths) > 1
                   THEN parallel_parse_logs(temp_dir, flts, tie)
                   ELSE sequential_parse(paths, flts, tie)
    IN  IF empty(logs_df)
        THEN Returns([logs_df |-> <<>>, stats |-> EmptyStats])
        ELSE IF crash THEN Raises(MemoryError)
        ELSE LET df == AddGeneralized(logs_df)
             IN  Returns([logs_df |-> df, stats |-> FrameStats(df),
                          extract_result |-> extract_result])

\* the files the File Ingest Worker is invoked on by TransformTask.execute: on
\* the parallel path those parallel_parse_logs lists in temp_dir, on the
\* sequential path the files Extract discovered
ParsedPaths(extract_result) ==
    IF extract_result = None THEN <<>>
    ELSE IF dask_available /\ USE_DASK /\ Len(extract_result.log_files) > 1
         THEN glob(extract_result.temp_dir)
         ELSE extract_result.log_files

\* how _save_to_postgres can end: committed, psycopg2.connect raised, or a
\* statement or the commit raised after the connection was opened
PgOutcomes == {"ok", "connect_fails", "create_fails", "insert_fails", "commit_fails"}

\* a slip: the connection is closed after the commit only
ClosedAfterCommitOnly(pg) == IF pg = "ok" THEN 1 ELSE 0

\* conn.close() in the finally clause: reached whenever connect returned
ConnectionsClosed(pg) == IF pg = "connect_fails" THEN 0 ELSE 1

\* LoadTask._save_to_postgres(df, stats): the rows committed, the connections
\* opened and closed, the commits, and whether it raised
save_to_postgres(df, pg, by) ==
    [by |-> by,
     calls |-> 1,
     opened |-> IF pg = "connect_fails" THEN 0 ELSE 1,
     closed |-> ConnectionsClosed(pg),
     commits |-> IF pg = "ok" THEN 1 ELSE 0,
     raised |-> pg # "ok",
     rows |-> IF pg = "ok" THEN {[by |-> by, n |-> Len(df)]} ELSE {}]

PgError == [type |-> "OperationalError", msg |-> "postgres"]

\* a slip: the failure of the database is not caught
PostgresRaises(e) == e

\* "except Exception as e" around _save_to_postgres: the failure is printed
PostgresCaught(e) == NoExc

\* the first file sink whose write fails, if any
FileFaults == {"none", "csv", "excel", "json"}

\* a slip: the load does not look whether there is data
NoDataIgnored(transform_result) == FALSE

\* "if logs_df.empty" of LoadTask.execute
no_data(transform_result) == empty(transform_result.logs_df)

\* LoadTask.execute(transform_result, output_format) called at time by: the
\* outcome and what reached the sinks before it
load_execute(transform_result, output_format, pg, file_fault, by) ==
    IF transform_result = None
    THEN Raises(TypeError) @@ [files |-> {}, rows |-> {}, pg |-> NoPgCall(by)]
    ELSE IF no_data(transform_result)
    THEN Returns([status |-> "no_data", files |-> <<>>])
             @@ [files |-> {}, rows |-> {}, pg |-> NoPgCall(by)]
    ELSE
    LET logs_df == transform_result.logs_df
        called == output_format \in {"postgres", "all"} /\ postgres_available
        saved == IF called THEN save_to_postgres(logs_df, pg, by)
                 ELSE NoPgCall(by) @@ [rows |-> {}]
        pg_exc == IF saved.raised THEN PostgresCaught(PgError) ELSE NoExc
        files0 == IF called /\ ~saved.raised THEN <<"postgres">> ELSE <<>>
        want_csv == output_format \in {"csv", "all"}
        want_excel == output_format \in {"excel", "all"}
        csv_fails == want_csv /\ file_fault = "csv"
        excel_fails == ~csv_fails /\ want_excel /\ file_fault = "excel"
        json_fails == ~csv_fails /\ ~excel_fails /\ file_fault = "json"
        files1 == IF want_csv /\ ~csv_fails THEN Append(files0, "csv") ELSE files0
        files2 == IF want_excel /\ ~csv_fails /\ ~excel_fails
                  THEN Append(files1, "excel") ELSE files1
        files3 == IF ~csv_fails /\ ~excel_fails /\ ~json_fails
                  THEN Append(files2, "json") ELSE files2
        written == {[type |-> files3[i], by |-> by] :
                        i \in {j \in 1..Len(files3) : files3[j] # "postgres"}}
        log == [k \in DOMAIN NoPgCall(by) |-> saved[k]]
        sinks == [files |-> written, rows |-> saved.rows, pg |-> log]
    IN  IF pg_exc # NoExc
        THEN Raises(pg_exc) @@ [files |-> {}, rows |-> saved.rows, pg |-> log]
        ELSE IF csv_fails THEN Raises(WriteError("csv")) @@ sinks
        ELSE IF excel_fails THEN Raises(WriteError("excel")) @@ sinks
        ELSE IF json_fails THEN Raises(WriteError("json")) @@ sinks
        ELSE Returns([status |-> "success", records_loaded |-> Len(logs_df),
                      files |-> files3]) @@ sinks

\* ETLPipeline() on a freshly imported module
Init ==
    /\ dask_available \in BOOLEAN
    /\ postgres_available \in BOOLEAN
    /\ clock = 0
    /\ pc = "idle" /\ stage = "none" /\ call = None
    /\ t_status = [s \in Stages |-> "pending"]
    /\ t_start = [s \in Stages |-> NoTime]
    /\ t_end = [s \in Stages |-> NoTime]
    /\ t_result = [s \in Stages |-> None]
    /\ t_error = [s \in Stages |-> None]
    /\ results = [k \in ResultKeys |-> Absent]
    /\ exec_exc = NoExc
    /\ outcome = [kind |-> "none"]
    /\ sink_files = {} /\ db_rows = {} /\ open_conns = 0
    /\ pg_log = NoPgCall(NoTime)
    /\ worker_calls = <<>>
    /\ log_files = <<>> /\ fault = <<>> /\ tie_order \in {"keep", "reverse"}
    /\ ing_pc = "off" /\ unit_res = <<>> /\ seq_i = 0 /\ all_records = <<>>
    /\ df_tasks = NotRun /\ df_bag = NotRun /\ df_seq = NotRun
    /\ GenIdle /\ ParseIdle

\* ETLPipeline.run(source_path, output_format) up to the first stage
PipelineRun(source_path, output_format) ==
    /\ pc = "idle"
    /\ clock + TicksPerRun <= MaxClock
    /\ clock' = clock + 1
    /\ call' = [source |-> source_path, format |-> output_format, start_time |-> clock + 1]
    /\ pc' = "call"
    /\ stage' = "extract"
    /\ exec_exc' = NoExc
    /\ outcome' = [kind |-> "running"]
    /\ UNCHANGED <<envVars, taskVars, results, sinkVars, worker_calls>>
    /\ UNCHANGED <<genVars, parseVars, ingestVars>>

\* ETLTask.run up to the call of execute
TaskBegin ==
    /\ pc = "call"
    /\ clock' = clock + 1
    /\ t_start' = [t_start EXCEPT ![stage] = clock + 1]
    /\ t_status' = [t_status EXCEPT ![stage] = "running"]
    /\ pc' = "exec"
    /\ UNCHANGED <<envVars, stage, call, t_end, t_result, t_error, results,
                   exec_exc, outcome, sinkVars, worker_calls>>
    /\ UNCHANGED <<genVars, parseVars, ingestVars>>

\* a slip: the wrapper records the failure and returns
TaskFailureSwallowed(e) ==
    [status |-> "failed", error |-> ErrText(e.msg), raises |-> NoExc]

\* the except clause of ETLTask.run
TaskFailure(e) ==
    [status |-> "failed", error |-> ErrText(e.msg), raises |-> e]

NextStage(s) ==
    CASE s = "extract" -> "transform" [] s = "transform" -> "load" [] OTHER -> "none"

\* ETLPipeline.run after stage s returned r: the result is stored, the next
\* stage is called or the run ends with the summary
Continue(s, r) ==
    IF s = "load"
    THEN /\ clock' = clock + 2
         /\ results' = [results EXCEPT ![s] = r,
                            !["pipeline"] = [status |-> "success",
                                             duration_seconds |-> clock + 2 - call.start_time,
                                             started_at |-> call.start_time,
                                             completed_at |-> clock + 2]]
         /\ pc' = "idle"
         /\ stage' = "none"
         /\ outcome' = [kind |-> "returned"]
    ELSE /\ clock' = clock + 1
         /\ results' = [results EXCEPT ![s] = r]
         /\ pc' = "call"
         /\ stage' = NextStage(s)
         /\ UNCHANGED outcome

\* the except clause of ETLPipeline.run
PipelineFails(s, e) ==
    /\ clock' = clock + 1
    /\ results' = [results EXCEPT !["pipeline"] =
                       [status |-> "failed", error |-> ErrText(e.msg)]]
    /\ pc' = "idle"
    /\ stage' = "none"
    /\ outcome' = [kind |-> "raised", stage |-> s, exc |-> e]

\* ETLTask.run from the return or the raise of execute, and ETLPipeline.run
\* from there to the next call of a stage or to its own end
Settle(s, out) ==
    /\ exec_exc' = out.exc
    /\ t_end' = [t_end EXCEPT ![s] = clock + 1]
    /\ UNCHANGED <<t_start, call, envVars>>
    /\ IF out.exc = NoExc
       THEN /\ t_result' = [t_result EXCEPT ![s] = out.result]
            /\ t_status' = [t_status EXCEPT ![s] = "completed"]
            /\ UNCHANGED t_error
            /\ Continue(s, out.result)
       ELSE LET h == TaskFailure(out.exc)
            IN  /\ t_status' = [t_status EXCEPT ![s] = h.status]
                /\ t_error' = [t_error EXCEPT ![s] = h.error]
                /\ UNCHANGED t_result
                /\ IF h.raises = NoExc
                   THEN Continue(s, t_result[s])
                   ELSE PipelineFails(s, h.raises)

ExecExtract ==
    /\ pc = "exec" /\ stage = "extract"
    /\ \E zip_ok \in BOOLEAN :
           Settle("extract", extract_execute(call.source, zip_ok))
    /\ UNCHANGED <<sinkVars, worker_calls>>
    /\ UNCHANGED <<genVars, parseVars, ingestVars>>

ExecTransform ==
    /\ pc = "exec" /\ stage = "transform"
    /\ \E flts \in [1..2 -> PipeFaults], crash \in BOOLEAN :
           Settle("transform",
                  transform_execute(results["extract"], flts, crash, tie_order))
    /\ worker_calls' = ParsedPaths(results["extract"])
    /\ UNCHANGED sinkVars
    /\ UNCHANGED <<genVars, parseVars, ingestVars>>

ExecLoad ==
    /\ pc = "exec" /\ stage = "load"
    /\ \E pg \in PgOutcomes, file_fault \in FileFaults :
           LET out == load_execute(results["transform"], call.format, pg, file_fault,
                                   t_start["load"])
           IN  /\ Settle("load", [exc |-> out.exc, result |-> out.result])
               /\ sink_files' = sink_files \cup out.files
               /\ db_rows' = db_rows \cup out.rows
               /\ open_conns' = open_conns + out.pg.opened - out.pg.closed
               /\ pg_log' = out.pg
    /\ UNCHANGED worker_calls
    /\ UNCHANGED <<genVars, parseVars, ingestVars>>

Next ==
    \/ \E source_path \in Sources, output_format \in Formats :
           PipelineRun(source_path, output_format)
    \/ TaskBegin
    \/ ExecExtract
    \/ ExecTransform
    \/ ExecLoad

Spec == Init /\ [][Next]_vars


Terminal == {"completed", "failed"}

\* C1: a stage moves only pending -> running -> completed or failed, and once
\* its status is completed or failed no later run() or ETLPipeline.run()
\* changes it.
C1_TerminalIsFinal ==
    [][\A s \in Stages :
          /\ t_status[s] \in Terminal => t_status'[s] = t_status[s]
          /\ t_status'[s] # t_status[s] =>
                \/ t_status[s] = "pending" /\ t_status'[s] = "running"
                \/ t_status[s] = "running" /\ t_status'[s] \in Terminal]_vars

\* C2: when the execute() of a stage raised, the stage has status failed and
\* a non-empty error message, and the status of the pipeline run is failed.
C2_FailureHasMessage ==
    outcome.kind = "raised" =>
        /\ t_status[outcome.stage] = "failed"
        /\ t_error[outcome.stage] # None
        /\ t_error[outcome.stage] # ErrText("")
        /\ results["pipeline"] # Absent
        /\ results["pipeline"].status = "failed"

StageIndex(s) ==
    CASE s = "extract" -> 1 [] s = "transform" -> 2 [] s = "load" -> 3 [] OTHER -> 4

\* run() of stage s has returned normally in the pipeline call under way or
\* just ended
ReturnedNormally(s) ==
    \/ outcome.kind = "returned"
    \/ pc \in {"call", "exec"} /\ StageIndex(s) < StageIndex(stage)

\* C3: the failure raised by execute() is the failure the caller receives, and
\* by then the stage holds status failed, the failure's message and an end
\* time; no failure of execute() is followed by a normal return, and every
\* stage that returned normally is completed.
C3_FailureReachesCaller ==
    /\ outcome.kind = "raised" =>
          /\ outcome.exc = exec_exc
          /\ t_status[outcome.stage] = "failed"
          /\ t_error[outcome.stage] = ErrText(exec_exc.msg)
          /\ t_start[outcome.stage] > call.start_time
          /\ t_end[outcome.stage] > t_start[outcome.stage]
    /\ exec_exc # NoExc => outcome.kind = "raised"
    /\ \A s \in Stages : ReturnedNormally(s) => t_status[s] = "completed"

\* the write of the csv file failed in Load: the caller of the pipeline holds
\* that failure, Load is failed and the two earlier stages are completed
C3_Witness ==
    /\ outcome.kind = "raised"
    /\ outcome.stage = "load"
    /\ outcome.exc = WriteError("csv")
    /\ t_status = [s \in Stages |-> IF s = "load" THEN "failed" ELSE "completed"]
    /\ t_error["load"] = ErrText("csv")

\* the stage has ended in the pipeline call under way or just ended
DoneInCall(s) == outcome.kind # "none" /\ t_end[s] > call.start_time

WrittenBy(by) ==
    {f \in sink_files : f.by = by} \cup {r \in db_rows : r.by = by}

\* C10: on a directory without matching files Extract completes with
\* files_count = 0, Transform completes with an empty frame and the statistics
\* total 0, errors 0, warnings 0, Load returns no_data and writes no file and no
\* row, and the run returns.
C10_EmptySourceLoadsNothing ==
    (outcome.kind # "none" /\ call.source = "emptydir") =>
        /\ outcome.kind # "raised"
        /\ pc = "idle" => DoneInCall("load")
        /\ DoneInCall("extract") =>
              /\ t_status["extract"] = "completed"
              /\ t_result["extract"].files_count = 0
              /\ t_result["extract"].log_files = <<>>
        /\ DoneInCall("transform") =>
              /\ t_status["transform"] = "completed"
              /\ t_result["transform"] =
                     [logs_df |-> <<>>,
                      stats |-> [total |-> 0, errors |-> 0, warnings |-> 0]]
        /\ DoneInCall("load") =>
              /\ t_status["load"] = "completed"
              /\ t_result["load"] = [status |-> "no_data", files |-> <<>>]
              /\ WrittenBy(t_start["load"]) = {}

\* a run on the empty directory returned after an earlier run had filled the
\* sinks: the sinks hold what the earlier run wrote and nothing else
C10_Witness ==
    /\ pc = "idle"
    /\ outcome.kind = "returned"
    /\ call.source = "emptydir"
    /\ call.format = "all"
    /\ results["load"] = [status |-> "no_data", files |-> <<>>]
    /\ db_rows # {}
    /\ Cardinality(sink_files) = 3
    /\ \A f \in sink_files : f.by < call.start_time


Listed(files, x) == \E i \in 1..Len(files) : files[i] = x

\* the file sinks output_format asks for, and the statistics document
RequestedFiles(output_format) ==
    (IF output_format \in {"csv", "all"} THEN {"csv"} ELSE {})
        \cup (IF output_format \in {"excel", "all"} THEN {"excel"} ELSE {})
        \cup {"json"}

FilesWrittenBy(by) == {f.type : f \in {g \in sink_files : g.by = by}}

\* C11: when _save_to_postgres raised, the failure does not leave Load: Load
\* goes on to the requested file sinks, fails only by the failure of one of
\* them, and when it completes every requested file is written and listed.
\* The report of a completed Load lists postgres exactly when the insert of
\* this call was committed.
C11_PostgresFailureNotFatal ==
    DoneInCall("load") =>
        /\ pg_log.raised =>
              /\ exec_exc # PgError
              /\ t_status["load"] = "failed" =>
                    \E x \in RequestedFiles(call.format) : exec_exc = WriteError(x)
              /\ t_status["load"] = "completed" =>
                    /\ t_result["load"].status = "success"
                    /\ FilesWrittenBy(t_start["load"]) = RequestedFiles(call.format)
                    /\ \A x \in RequestedFiles(call.format) :
                           Listed(t_result["load"].files, x)
        /\ t_status["load"] = "completed" =>
              (Listed(t_result["load"].files, "postgres")
                   <=> (pg_log.commits = 1
                        /\ \E r \in db_rows : r.by = t_start["load"]))

\* the insert failed on an open connection, and Load completed with the three
\* files and without the database in its report
C11_Witness ==
    /\ pc = "idle" /\ outcome.kind = "returned"
    /\ call.format = "all"
    /\ pg_log.raised /\ pg_log.opened = 1
    /\ t_result["load"].status = "success"
    /\ t_result["load"].files = <<"csv", "excel", "json">>
    /\ db_rows = {}

\* C12: a Load of a non-empty frame with one of the formats postgres, csv,
\* excel, all writes the statistics document whenever it wrote to any sink
\* (unless the write of the document itself failed), and a completed Load
\* lists it.
C12_SidecarAlwaysWritten ==
    (/\ DoneInCall("load")
     /\ call.format \in {"postgres", "csv", "excel", "all"}
     /\ ~empty(results["transform"].logs_df)
     /\ exec_exc # WriteError("json")) =>
        /\ WrittenBy(t_start["load"]) # {} => "json" \in FilesWrittenBy(t_start["load"])
        /\ t_status["load"] = "completed" => Listed(t_result["load"].files, "json")

\* C13: a load call calls _save_to_postgres at most once, which opens at most
\* one connection and commits at most once on it; every connection opened is
\* closed when the call ends, however it ends.
C13_ConnectionReleased ==
    /\ pg_log.calls <= 1
    /\ pg_log.opened <= pg_log.calls
    /\ pg_log.commits <= pg_log.opened
    /\ pg_log.closed = pg_log.opened
    /\ pg_log.raised => pg_log.commits = 0
    /\ open_conns = 0

\* a statement failed on the open connection and then the write of the csv
\* file failed: Load ended failed, and the connection is closed
C13_Witness ==
    /\ outcome.kind = "raised" /\ outcome.stage = "load"
    /\ exec_exc = WriteError("csv")
    /\ pg_log.by = t_start["load"]
    /\ pg_log.raised /\ pg_log.opened = 1 /\ pg_log.closed = 1
    /\ open_conns = 0

RanInCall(s) == t_start[s] > call.start_time

\* C14: after a pipeline run has ended, returned or raised, a stage that ran in
\* it is completed with its result in the report or failed with the failure's
\* message, and a stage that did not run in it is reported as not run: status
\* pending and no entry in the report.
C14_ReportReflectsRun ==
    (pc = "idle" /\ outcome.kind # "none") =>
        \A s \in Stages :
            IF RanInCall(s)
            THEN \/ t_status[s] = "completed" /\ results[s] = t_result[s]
                 \/ /\ t_status[s] = "failed"
                    /\ outcome.kind = "raised" /\ outcome.stage = s
                    /\ t_error[s] = ErrText(outcome.exc.msg)
            ELSE t_status[s] = "pending" /\ results[s] = Absent

\* C15: when Transform has run, the worker was invoked exactly once on each
\* of the files Extract discovered.
C15_EveryFileParsedOnce ==
    (DoneInCall("transform") /\ results["extract"] # Absent) =>
        \A p \in {results["extract"].log_files[i] :
                      i \in 1..Len(results["extract"].log_files)} :
            Cardinality({k \in 1..Len(worker_calls) : worker_calls[k] = p}) = 1

\* C19: in a pipeline run every stage before the one under way has completed
\* after its predecessor and its result is the one handed on; when a stage
\* failed, every later stage is pending.
C19_StagesInOrder ==
    /\ \A s \in Stages :
          ReturnedNormally(s) =>
              /\ t_status[s] = "completed"
              /\ results[s] = t_result[s]
              /\ RanInCall(s)
              /\ \A r \in Stages : StageIndex(r) < StageIndex(s) => t_end[r] < t_start[s]
    /\ outcome.kind = "raised" =>
          /\ pc = "idle"
          /\ \A s \in Stages :
                StageIndex(s) > StageIndex(outcome.stage) => t_status[s] = "pending"


\* the orders in which n results can be gathered
GatherOrders(n) ==
    {p \in [1..n -> 1..n] : \A i, j \in 1..n : i # j => p[i] # p[j]}

\* the frame of the per-file results concatenated in the order p
FrameInOrder(p) ==
    FinishFrame(ConcatUnits([i \in 1..NFiles |->
                    process_single_log_file(FileAt(p[i]), fault[p[i]])], NFiles),
                tie_order)

\* C16: the frame parallel_parse_logs returns is the frame of every order in
\* which the results of the same files can be gathered and concatenated.
C16_OrderIndependent ==
    df_tasks # NotRun => \A p \in GatherOrders(NFiles) : FrameInOrder(p) = df_tasks.val

LevelINFO == <<"I", "N", "F", "O">>

\* the trimmed line has the shape of a log line and INFO at the level position
InfoAtLevel(line) ==
    LET m == RegexMatch(Strip(line)) IN m # NoRecord /\ m.level = LevelINFO

UnitDone(i) == ing_pc \in {"tasks_run", "bag_run"} /\ unit_res[i] # NotRun

\* C17: every line a worker has read that has INFO at the level position was
\* skipped before the Line Parser, and no record of the worker's result is of
\* that line.
C17_InfoSkippedBeforeParser ==
    \A i \in 1..NFiles :
        UnitDone(i) =>
            \A k \in 1..LinesRead(FileAt(i), fault[i]) :
                InfoAtLevel(FileAt(i).lines[k]) =>
                    /\ SkippedByPrefilter(FileAt(i).lines[k])
                    /\ \A n \in 1..Len(unit_res[i].val) :
                           unit_res[i].val[n].line_number # k

AllTaskRecords ==
    ConcatUnits([i \in 1..NFiles |-> process_single_log_file(FileAt(i), fault[i])], NFiles)
AllBagRecords ==
    ConcatUnits([i \in 1..NFiles |-> read_and_parse_file(FileAt(i), fault[i])], NFiles)

\* C18: while a dispatched unit has not returned no frame is produced, and a
\* frame that is produced is the frame of the results of all the files, on the
\* task path as on the bag path.
C18_GatherIsBarrier ==
    /\ (ing_pc = "tasks_run" /\ ~AllUnitsDone) => df_tasks = NotRun
    /\ (ing_pc = "bag_run" /\ ~AllUnitsDone) => df_bag = NotRun
    /\ df_tasks # NotRun => df_tasks.val = FinishFrame(AllTaskRecords, tie_order)
    /\ df_bag # NotRun => df_bag.val = FinishFrame(AllBagRecords, tie_order)

\* the second partition of the bag has returned before the first, and there
\* is no frame of the bag yet
C18_Witness ==
    /\ ing_pc = "bag_run"
    /\ NFiles = 2
    /\ unit_res[1] = NotRun /\ unit_res[2] # NotRun /\ unit_res[2].val # <<>>
    /\ df_tasks # NotRun /\ df_bag = NotRun

\* recs are records of file f in line order, each with the base name of f and
\* the number of its line
InLineOrder(recs, f) ==
    \A k \in 1..Len(recs) :
        /\ recs[k].file_name = f.name
        /\ recs[k].line_number \in 1..Len(f.lines)
        /\ recs[k].log = Strip(f.lines[recs[k].line_number])
        /\ k > 1 => recs[k - 1].line_number < recs[k].line_number

\* C20: what a worker returns for a file, and what the sequential loop has
\* appended for a file, are records of that file in line order: each has the
\* base name of the file and the 1-based number of its line among all the
\* lines of the file, and the numbers increase strictly.
C20_LineOrder ==
    /\ \A i \in 1..NFiles : UnitDone(i) => InLineOrder(unit_res[i].val, FileAt(i))
    /\ ing_pc = "seq_loop" =>
          \A i \in 1..NFiles :
              InLineOrder(SelectSeq(all_records, LAMBDA r : r.file_name = FileAt(i).name),
                          FileAt(i))

\* a.txt was read to its end: its records are those of lines 1 and 3, the INFO
\* line between them is counted
C20_Witness ==
    /\ ing_pc = "tasks_run"
    /\ log_files = <<1>> /\ fault = <<NoFault>>
    /\ unit_res[1] # NotRun
    /\ Len(unit_res[1].val) = 2
    /\ unit_res[1].val[1].line_number = 1 /\ unit_res[1].val[2].line_number = 3
    /\ unit_res[1].val[2].file_name = "a.txt"


\* recs holds no record of line k of file f
NoRecordOfLine(recs, f, k) ==
    \A n \in 1..Len(recs) : ~(recs[n].file_name = f.name /\ recs[n].line_number = k)

\* C17, as the code has it: no line with INFO at the level position that a
\* worker or the sequential loop has read is in the result. A line that holds
\* INFO between two blanks is skipped before the Line Parser; any other such
\* line reaches the Line Parser, which returns no record for it.
C17_InfoNeverRecorded ==
    \A i \in 1..NFiles :
        \A k \in 1..LinesRead(FileAt(i), fault[i]) :
            LET line == FileAt(i).lines[k]
            IN  InfoAtLevel(line) =>
                    /\ UnitDone(i) => NoRecordOfLine(unit_res[i].val, FileAt(i), k)
                    /\ ing_pc = "seq_loop" => NoRecordOfLine(all_records, FileAt(i), k)
                    /\ ~SkippedByPrefilter(line) =>
                           /\ parse_log_line(line) = NoRecord
                           /\ etl_parse_log_line(Strip(line)) = NoRecord

\* c.txt was read to its end: its INFO line is separated by tabs, was not
\* skipped before the Line Parser, and is not in the result
C17_Witness ==
    /\ log_files = <<3>> /\ fault = <<NoFault>>
    /\ ing_pc = "tasks_run" /\ unit_res[1] # NotRun
    /\ InfoAtLevel(FileAt(1).lines[2])
    /\ ~SkippedByPrefilter(FileAt(1).lines[2])
    /\ NoRecordOfLine(unit_res[1].val, FileAt(1), 2)

\* the statistics st count the records of the frame df
StatsOfFrame(st, df) ==
    /\ st.total = Len(df)
    /\ st.total = st.errors + st.warnings
    /\ st.errors = Cardinality({i \in 1..Len(df) : df[i].Level = LevelERROR})
    /\ st.warnings = Cardinality({i \in 1..Len(df) : df[i].Level = LevelWARNING})

\* C21: in every result of Transform the statistics agree with the frame:
\* total is the number of its records and is errors + warnings; and when Load
\* returned success on that result, records_loaded is that total.
C21_StatsMatchFrame ==
    /\ t_result["transform"] # None =>
          StatsOfFrame(t_result["transform"].stats, t_result["transform"].logs_df)
    /\ results["transform"] # Absent =>
          StatsOfFrame(results["transform"].stats, results["transform"].logs_df)
    /\ (/\ DoneInCall("load")
        /\ t_status["load"] = "completed"
        /\ t_result["load"].status = "success") =>
          /\ t_result["load"].records_loaded = t_result["transform"].stats.total
          /\ t_result["load"].records_loaded = Len(t_result["transform"].logs_df)

\* the archive was run to its end: the frame holds one ERROR and two WARNING
\* records, the statistics say so, and Load reports three records
C21_Witness ==
    /\ pc = "idle" /\ outcome.kind = "returned"
    /\ call.source = "logs.zip"
    /\ results["transform"].stats.total = 3
    /\ results["transform"].stats.errors = 1
    /\ results["transform"].stats.warnings = 2
    /\ Len(results["transform"].logs_df) = 3
    /\ results["load"].status = "success"
    /\ results["load"].records_loaded = 3

\* the trimmed line has the shape of a log line, the level WARNING or ERROR and
\* a timestamp that is a date of the calendar
AnomalyLine(line) ==
    LET m == RegexMatch(Strip(line))
    IN  /\ m # NoRecord
        /\ m.level \in {LevelWARNING, LevelERROR}
        /\ to_datetime(m.ts) # NaT

\* the number of records of recs that are of line k of file f
RecordsOfLine(recs, f, k) ==
    Cardinality({n \in 1..Len(recs) :
                    recs[n].file_name = f.name /\ recs[n].line_number = k})

\* C22: every line of a file read without failure that has the shape of a log
\* line, the level WARNING or ERROR and a parseable timestamp has exactly one
\* record in the result of its worker and in each frame, whatever its message
\* holds.
C22_NoAnomalyLost ==
    \A i \in 1..NFiles :
        fault[i] = NoFault =>
            \A k \in 1..Len(FileAt(i).lines) :
                AnomalyLine(FileAt(i).lines[k]) =>
                    /\ UnitDone(i) => RecordsOfLine(unit_res[i].val, FileAt(i), k) = 1
                    /\ df_tasks # NotRun => RecordsOfLine(df_tasks.val, FileAt(i), k) = 1
                    /\ df_bag # NotRun => RecordsOfLine(df_bag.val, FileAt(i), k) = 1
                    /\ df_seq # NotRun => RecordsOfLine(df_seq.val, FileAt(i), k) = 1


\* the sinks that hold records: the table, the csv file, the spreadsheet
RecordSinks == {"postgres", "csv", "excel"}

\* C23: a Load that returned success with records_loaded > 0 for one of the
\* formats postgres, csv, excel, all lists at least one sink that holds
\* records, also when the database is unavailable or its call failed.
C23_SuccessNamesRecordSink ==
    (/\ DoneInCall("load")
     /\ t_status["load"] = "completed"
     /\ call.format \in {"postgres", "csv", "excel", "all"}
     /\ t_result["load"].status = "success"
     /\ t_result["load"].records_loaded > 0) =>
        \E x \in RecordSinks : Listed(t_result["load"].files, x)


\* C24: when Load ended failed, by the failure of the write of a file, no row
\* of that call is committed in the table.
C24_FailedLoadKeepsNothing ==
    (DoneInCall("load") /\ t_status["load"] = "failed") =>
        \A r \in db_rows : r.by # t_start["load"]


\* exactly one stage is failed and every stage before it is completed
OneFailedAfterCompleted ==
    \E s \in Stages :
        /\ t_status[s] = "failed"
        /\ \A r \in Stages \ {s} : t_status[r] # "failed"
        /\ \A r \in Stages : StageIndex(r) < StageIndex(s) => t_status[r] = "completed"

\* C25: after a call of ETLPipeline.run the report's status is success exactly
\* when the three stages are completed, failed exactly when one stage is failed
\* with the stages before it completed, and the report holds the result of a
\* stage only when that stage completed in this call.
C25_ReportMatchesStages ==
    (pc = "idle" /\ outcome.kind # "none") =>
        /\ results["pipeline"] # Absent
        /\ results["pipeline"].status = "success"
               <=> \A s \in Stages : t_status[s] = "completed"
        /\ results["pipeline"].status = "failed" <=> OneFailedAfterCompleted
        /\ \A s \in Stages :
               results[s] # Absent => (t_status[s] = "completed" /\ RanInCall(s))


=============================================================================
